---- MODULE Spec2Model ----
(***************************************************************************)
(* A model of the Jira client adapter: JiraApiService (the modern API) and *)
(* JiraServerApiService (the legacy /rest/api/2/ variant).                 *)
(*                                                                         *)
(* Strings are sequences.  Document text, URLs and issue keys are          *)
(* sequences of characters, so that the two regular expressions of         *)
(* extractIssueMentions are computed and not assumed.  Error messages and  *)
(* request paths are sequences of tokens (a token is a fixed piece of      *)
(* text such as "JIRA API Error" or "/rest/api/3/").                       *)
(*                                                                         *)
(* A JavaScript value that may be undefined is a record                    *)
(* [has |-> BOOLEAN, val |-> ...]; a string or array field that the code   *)
(* only ever tests for truthiness and then reads is the empty sequence     *)
(* when it is missing.                                                     *)
(***************************************************************************)
EXTENDS Integers, Sequences, FiniteSets, TLC

VARIABLES variant, op, pc, arg, requests, net, local, result

vars == <<variant, op, pc, arg, requests, net, local, result>>

(***************************************************************************)
(* Bounds of the model.                                                    *)
(***************************************************************************)
MaxTextLen == 4
MaxNodes == 3
MaxLinks == 2
MaxComments == 1
MaxIssues == 2

(***************************************************************************)
(* Characters and strings.                                                 *)
(***************************************************************************)
Upper == {"A", "B"}
Digit == {"1"}
Alphabet == Upper \cup Digit \cup {"-", "x"}
Browse == "/browse/"
UrlAlphabet == Alphabet \cup {Browse}

RECURSIVE SeqsUpTo(_, _)
SeqsUpTo(S, n) ==
    IF n = 0 THEN {<<>>}
    ELSE LET shorter == SeqsUpTo(S, n - 1)
         IN  shorter \cup {Append(s, x) : s \in {t \in shorter : Len(t) = n - 1}, x \in S}

RECURSIVE Flatten(_)
Flatten(ss) == IF ss = <<>> THEN <<>> ELSE Head(ss) \o Flatten(Tail(ss))

None == [has |-> FALSE, val |-> <<>>]
Some(v) == [has |-> TRUE, val |-> v]

(***************************************************************************)
(* The issue-key regular expression [A-Z]+-\d+ .                           *)
(* RunEnd(s, i, C) is the last index of the maximal run of characters of C *)
(* that starts at i (i - 1 when s[i] is not in C).  Both quantifiers of    *)
(* the expression are greedy; giving back a letter never helps, because    *)
(* the character that would then have to be "-" is a letter, and giving    *)
(* back a digit only shortens the match, so the match at i is decided by   *)
(* the maximal runs.                                                       *)
(***************************************************************************)
RECURSIVE RunEnd(_, _, _)
RunEnd(s, i, C) ==
    IF i <= Len(s) /\ s[i] \in C THEN RunEnd(s, i + 1, C) ELSE i - 1

\* MatchKeyAt with \d* for \d+ : a key need not have a digit.
MatchKeyAtNoDigit(s, i) ==
    LET j == RunEnd(s, i, Upper)
    IN  IF j >= i /\ j + 1 <= Len(s) /\ s[j + 1] = "-"
        THEN RunEnd(s, j + 2, Digit)
        ELSE 0

\* End index of the match of [A-Z]+-\d+ that starts at index i of s, 0 if none.
MatchKeyAt(s, i) ==
    LET j == RunEnd(s, i, Upper)
    IN  IF j >= i /\ j + 2 <= Len(s) /\ s[j + 1] = "-" /\ s[j + 2] \in Digit
        THEN RunEnd(s, j + 2, Digit)
        ELSE 0

\* text.match(/[A-Z]+-\d+/g) || [] : every match, leftmost first, the search
\* resuming right after the previous match.
RECURSIVE MatchAllKeys(_, _)
MatchAllKeys(s, i) ==
    IF i > Len(s) THEN <<>>
    ELSE LET e == MatchKeyAt(s, i)
         IN  IF e > 0 THEN <<SubSeq(s, i, e)>> \o MatchAllKeys(s, e + 1)
             ELSE MatchAllKeys(s, i + 1)

\* url.match(/\/browse\/([A-Z]+-\d+)/) : the capture group of the leftmost
\* match, None when the url does not match.
RECURSIVE MatchBrowseKey(_, _)
MatchBrowseKey(url, i) ==
    IF i > Len(url) THEN None
    ELSE IF url[i] = Browse /\ MatchKeyAt(url, i + 1) > 0
         THEN Some(SubSeq(url, i + 1, MatchKeyAt(url, i + 1)))
         ELSE MatchBrowseKey(url, i + 1)

(***************************************************************************)
(* Document nodes.                                                         *)
(***************************************************************************)
Node(t, txt, url, kids) == [url |-> url, type |-> t, text |-> txt, content |-> kids]

KeyA == <<"A", "-", "1">>
KeyB == <<"B", "-", "1">>

\* The node shapes documents are built of, each without its children.
Shapes ==
    { Node("text", <<>>, <<>>, <<>>),
      Node("text", KeyA, <<>>, <<>>),
      Node("text", KeyB \o KeyA, <<>>, <<>>),
      Node("inlineCard", <<>>, <<Browse>> \o KeyA, <<>>),
      Node("inlineCard", <<>>, <<Browse>> \o KeyB, <<>>),
      Node("paragraph", <<>>, <<>>, <<>>) }

\* ForestsOf[n]: the sequences of trees that have n nodes in all.
ForestsOf[n \in 0..(MaxNodes + 1)] ==
    IF n = 0 THEN {<<>>}
    ELSE UNION { { <<[s EXCEPT !.content = kids]>> \o rest :
                     s \in Shapes, kids \in ForestsOf[k - 1], rest \in ForestsOf[n - k] }
                 : k \in 1..n }

ForestsUpTo(n) == UNION { ForestsOf[k] : k \in 0..n }

AllTexts == SeqsUpTo(Alphabet, MaxTextLen)
AllUrls == SeqsUpTo(UrlAlphabet, MaxTextLen)

\* The documents the extractors are applied to: every tree of up to MaxNodes
\* nodes, every single text node and every single inlineCard node.
Docs ==
    ForestsUpTo(MaxNodes)
      \cup { <<Node("text", t, <<>>, <<>>)>> : t \in AllTexts }
      \cup { <<Node("inlineCard", <<>>, u, <<>>)>> : u \in AllUrls }

(***************************************************************************)
(* Document Text Extractor.  The argument is [isArray, items]: the guard   *)
(* of the first line answers "" for anything that is not an array.         *)
(***************************************************************************)
Arr(items) == [items |-> items, isArray |-> TRUE]
NotAnArray == [items |-> <<>>, isArray |-> FALSE]

RECURSIVE extractTextContent(_)
\* extractTextContent with its two tests swapped: a node that has children is
\* a container whatever its type.
extractTextContentChildrenFirst(content) ==
    IF ~content.isArray THEN <<>>
    ELSE Flatten([i \in 1..Len(content.items) |->
             LET node == content.items[i]
             IN  IF node.content # <<>> THEN extractTextContent(Arr(node.content))
                 ELSE IF node.type = "text" THEN node.text
                 ELSE <<>>])

extractTextContent(content) ==
    IF ~content.isArray THEN <<>>
    ELSE Flatten([i \in 1..Len(content.items) |->
             LET node == content.items[i]
             IN  IF node.type = "text" THEN node.text
                 ELSE IF node.content # <<>> THEN extractTextContent(Arr(node.content))
                 ELSE <<>>])

(***************************************************************************)
(* Mention Extractor.                                                      *)
(***************************************************************************)
Mention(k, src, cid) ==
    [type |-> "mention", key |-> k, source |-> src, commentId |-> cid,
     summary |-> None, relationship |-> None]

\* processNode and the two forEach loops that drive it: the mentions pushed
\* while the nodes of content are visited, in the order they are pushed.
RECURSIVE processNodes(_, _, _)
processNodes(content, source, commentId) ==
    IF content = <<>> THEN <<>>
    ELSE LET node == Head(content)
             card == IF node.type = "inlineCard" /\ node.url # <<>>
                     THEN MatchBrowseKey(node.url, 1) ELSE None
             fromCard == IF card.has THEN <<Mention(card.val, source, commentId)>>
                         ELSE <<>>
             keys == IF node.type = "text" /\ node.text # <<>>
                     THEN MatchAllKeys(node.text, 1) ELSE <<>>
             fromText == [i \in 1..Len(keys) |-> Mention(keys[i], source, commentId)]
         IN  fromCard \o fromText
               \o processNodes(node.content, source, commentId)
               \o processNodes(Tail(content), source, commentId)

\* MapSet for a map that moves a key set again to the end.
MapSetMovesToEnd(entries, m) ==
    Append(SelectSeq(entries, LAMBDA e : e.key # m.key), m)

\* Map.set: an entry whose key is already in the map replaces the value at
\* the key's position, a new key is appended.
MapSet(entries, m) ==
    IF \E i \in 1..Len(entries) : entries[i].key = m.key
    THEN [i \in 1..Len(entries) |-> IF entries[i].key = m.key THEN m ELSE entries[i]]
    ELSE Append(entries, m)

\* [...new Map(mentions.map((m) => [m.key, m])).values()]
RECURSIVE MapValues(_, _)
MapValues(entries, mentions) ==
    IF mentions = <<>> THEN entries
    ELSE MapValues(MapSet(entries, Head(mentions)), Tail(mentions))

extractIssueMentions(content, source, commentId) ==
    MapValues(<<>>, processNodes(content, source, commentId))

(***************************************************************************)
(* Comment and issue normalisation.                                        *)
(***************************************************************************)
cleanComment(comment) ==
    [mentions |-> IF comment.body.has
                  THEN extractIssueMentions(comment.body.val, "comment", Some(comment.id))
                  ELSE <<>>,
     body |-> IF comment.body.has THEN extractTextContent(Arr(comment.body.val)) ELSE <<>>,
     id |-> comment.id,
     author |-> comment.author,
     created |-> comment.created,
     updated |-> comment.updated]

\* One entry of the links array built from issue.fields.issuelinks.
linkEntry(link) ==
    LET linkedIssue == IF link.inwardIssue.has THEN link.inwardIssue.val
                       ELSE link.outwardIssue.val
        relationship == IF link.type.inward # <<>> THEN Some(link.type.inward)
                        ELSE IF link.type.outward # <<>> THEN Some(link.type.outward)
                        ELSE None
    IN  [type |-> "link", key |-> linkedIssue.key, source |-> "description",
         commentId |-> None, summary |-> linkedIssue.summary,
         relationship |-> relationship]

\* linkedIssue.key is read of undefined when a link has neither side.
cleanIssueThrows(issue) ==
    \E i \in 1..Len(issue.issuelinks) :
        ~issue.issuelinks[i].inwardIssue.has /\ ~issue.issuelinks[i].outwardIssue.has

cleanIssue(issue) ==
    [key |-> issue.key,
     summary |-> issue.summary,
     id |-> issue.id,
     created |-> issue.created,
     updated |-> issue.updated,
     description |-> IF issue.description.has
                     THEN extractTextContent(Arr(issue.description.val)) ELSE <<>>,
     status |-> issue.status,
     relatedIssues |->
         (IF issue.description.has
          THEN extractIssueMentions(issue.description.val, "description", None)
          ELSE <<>>)
         \o [i \in 1..Len(issue.issuelinks) |-> linkEntry(issue.issuelinks[i])],
     parent |-> IF issue.parent.has
                THEN Some([key |-> issue.parent.val.key, summary |-> issue.parent.val.summary,
                           id |-> issue.parent.val.id])
                ELSE None,
     epicLink |-> IF issue.customfield_10014 # <<>>
                  THEN Some([key |-> issue.customfield_10014,
                             summary |-> None, id |-> issue.customfield_10014])
                  ELSE None,
     children |-> IF Len(issue.subtasks) > 0
                  THEN Some([i \in 1..Len(issue.subtasks) |->
                             [key |-> issue.subtasks[i].key, summary |-> issue.subtasks[i].summary,
                              id |-> issue.subtasks[i].id]])
                  ELSE None,
     comments |-> None]

(***************************************************************************)
(* Error translation.  A response is [ok, status, statusText, body]; the   *)
(* body is what response.json() makes of it: it throws ("unparseable"),    *)
(* yields null, or yields an object whose errorMessages is missing, an     *)
(* array or some other value, and whose message and errorMessage are       *)
(* strings (empty when missing: the code tests them for truthiness).       *)
(***************************************************************************)
RECURSIVE Join(_, _)
Join(items, sep) ==
    IF items = <<>> THEN <<>>
    ELSE IF Len(items) = 1 THEN Head(items)
    ELSE Head(items) \o sep \o Join(Tail(items), sep)

Body(k, emKind, em, m, e) ==
    [kind |-> k, errorMessages |-> [items |-> em, kind |-> emKind],
     message |-> m, errorMessage |-> e]

Response(o, st, txt, b) == [body |-> b, status |-> st, ok |-> o, statusText |-> txt]

\* handleFetchError with the tests of message and errorMessage swapped.
handleFetchErrorSwapped(response) ==
    IF ~response.ok
    THEN LET errorData == response.body
             message ==
                 IF errorData.kind # "object" THEN response.statusText
                 ELSE IF errorData.errorMessages.kind = "array"
                         /\ Len(errorData.errorMessages.items) > 0
                      THEN Join(errorData.errorMessages.items, <<"; ">>)
                 ELSE IF errorData.errorMessage # <<>> THEN errorData.errorMessage
                 ELSE IF errorData.message # <<>> THEN errorData.message
                 ELSE response.statusText
             errorMessage == IF message # <<>> THEN <<": ">> \o message ELSE <<>>
         IN  <<"JIRA API Error">> \o errorMessage
                \o <<" (Status: ", ToString(response.status), ")">>
    ELSE <<"Unknown error occurred during fetch operation.">>

\* The message of the Error that handleFetchError throws.
handleFetchError(response) ==
    IF ~response.ok
    THEN LET errorData == response.body
             message ==
                 IF errorData.kind # "object" THEN response.statusText
                 ELSE IF errorData.errorMessages.kind = "array"
                         /\ Len(errorData.errorMessages.items) > 0
                      THEN Join(errorData.errorMessages.items, <<"; ">>)
                 ELSE IF errorData.message # <<>> THEN errorData.message
                 ELSE IF errorData.errorMessage # <<>> THEN errorData.errorMessage
                 ELSE response.statusText
             errorMessage == IF message # <<>> THEN <<": ">> \o message ELSE <<>>
         IN  <<"JIRA API Error">> \o errorMessage
                \o <<" (Status: ", ToString(response.status), ")">>
    ELSE <<"Unknown error occurred during fetch operation.">>

\* The responses handleFetchError is applied to.
ErrorMessagesValues ==
    { [items |-> <<>>, kind |-> "absent"], [items |-> <<>>, kind |-> "other"] }
      \cup { [items |-> em, kind |-> "array"] :
               em \in { <<>>, << <<"m1">> >>, << <<"m1">>, <<"m2">> >>, << <<>> >> } }

Bodies ==
    { Body("unparseable", "absent", <<>>, <<>>, <<>>), Body("null", "absent", <<>>, <<>>, <<>>) }
      \cup { [kind |-> "object", errorMessages |-> em, message |-> m, errorMessage |-> e] :
               em \in ErrorMessagesValues, m \in {<<>>, <<"msg">>}, e \in {<<>>, <<"emsg">>} }

Responses ==
    { Response(FALSE, st, txt, b) : st \in {400, 404, 500}, txt \in {<<>>, <<"Status Text">>},
                                    b \in Bodies }
      \cup { Response(TRUE, 200, <<"OK">>, Body("null", "absent", <<>>, <<>>, <<>>)) }

(***************************************************************************)
(* Requests.  A path is a sequence of tokens whose first token is the API  *)
(* prefix.  A fetch is [path, outcome, delivered]: the outcome is what the *)
(* tracker will answer, fixed when the request is sent; delivery is a      *)
(* separate step, so that fetches in flight complete in any order.         *)
(***************************************************************************)
Api3 == "/rest/api/3/"
Api2 == "/rest/api/2/"

\* JiraServerApiService.overrideApiPath: String.replace replaces the first
\* occurrence only.
RECURSIVE overrideApiPath(_)
overrideApiPath(path) ==
    IF path = <<>> THEN <<>>
    ELSE IF Head(path) = Api3 THEN <<Api2>> \o Tail(path)
    ELSE <<Head(path)>> \o overrideApiPath(Tail(path))

\* The path fetchJson passes to fetch: JiraServerApiService.fetchJson rewrites
\* it and calls the inherited fetchJson.
fetchJsonPath(v, url) == IF v = "server" THEN overrideApiPath(url) ELSE url

Ok(data) == [kind |-> "ok", data |-> data]
Http(status) ==
    [kind |-> "http",
     response |-> Response(FALSE, status, <<"Status Text">>,
                           Body("object", "array", << <<"m1">> >>, <<>>, <<>>))]
Network == [kind |-> "network"]
Failures == { Http(404), Http(500), Network }

Fetch(p, o) == [path |-> p, outcome |-> o, delivered |-> FALSE]

\* The message of the error a failed fetchJson call rejects with.
fetchJsonError(outcome) ==
    IF outcome.kind = "http" THEN handleFetchError(outcome.response)
    ELSE <<"fetch failed">>

NoResult == [kind |-> "none"]
Returned(v) == [val |-> v, kind |-> "ok"]
Thrown(msg) == [kind |-> "error", msg |-> msg]

(***************************************************************************)
(* Raw issue payloads.                                                     *)
(***************************************************************************)
KeyA1 == <<"A", "1", "-", "1">>

LinkedIssue(k, s) == [key |-> k, summary |-> s]

Links ==
    { [type |-> t, inwardIssue |-> i, outwardIssue |-> o] :
        i \in { None, Some(LinkedIssue(KeyA, Some(<<"inward summary">>))) },
        o \in { None, Some(LinkedIssue(KeyB, None)), Some(LinkedIssue(KeyA1, None)) },
        t \in { [inward |-> <<"is blocked by">>, outward |-> <<"blocks">>],
                [inward |-> <<"relates to">>, outward |-> <<"relates to">>] } }

RawIssue(k, d, l, p, e, st) ==
    [key |-> k, summary |-> <<"summary">>, id |-> <<"id of ">> \o k,
     created |-> <<"t0">>, updated |-> <<"t1">>, description |-> d,
     issuelinks |-> l, status |-> <<"Open">>, parent |-> p,
     customfield_10014 |-> e, subtasks |-> st]

Related(k) == [key |-> k, summary |-> Some(<<"summary">>), id |-> <<"id of ">> \o k]

Descriptions == {None} \cup { Some(<<s>>) : s \in Shapes }

\* The payloads cleanIssue is applied to.
RawIssues ==
    { RawIssue(KeyA, d, l, x[1], x[2], x[3]) :
        d \in Descriptions, l \in SeqsUpTo(Links, MaxLinks),
        x \in { <<None, <<>>, <<>>>>,
                <<Some(Related(KeyB)), <<>>, <<>>>>,
                <<None, KeyB, <<>>>>,
                <<None, <<>>, <<Related(KeyB)>>>>,
                <<Some(Related(KeyB)), KeyB, <<Related(KeyA), Related(KeyB)>>>> } }

(***************************************************************************)
(* The client.  One operation runs at a time, from its call to its return  *)
(* or throw; the client holds nothing between two operations but its       *)
(* configuration, so every operation starts from the same state.           *)
(***************************************************************************)
Idle == pc = "idle"

Init ==
    /\ variant \in {"cloud", "server"}
    /\ op = "none"
    /\ pc = "idle"
    /\ arg = <<>>
    /\ requests = <<>>
    /\ net = <<>>
    /\ local = <<>>
    /\ result = NoResult

\* A call that completes in one step, without a request.
Finish(name, a, r) ==
    /\ op' = name
    /\ arg' = a
    /\ result' = r
    /\ pc' = "done"
    /\ UNCHANGED <<variant, requests, net, local>>

CallExtractTextContent ==
    /\ Idle
    /\ \E content \in { Arr(d) : d \in Docs } \cup { NotAnArray } :
        Finish("extractTextContent", [content |-> content],
               Returned(extractTextContent(content)))

CallExtractIssueMentions ==
    /\ Idle
    /\ \E d \in Docs, sc \in { <<"description", None>>, <<"comment", Some(<<"c1">>)>> } :
        Finish("extractIssueMentions",
               [content |-> d, source |-> sc[1], commentId |-> sc[2]],
               Returned(extractIssueMentions(d, sc[1], sc[2])))

CallCleanIssue ==
    /\ Idle
    /\ \E issue \in RawIssues :
        Finish("cleanIssue", [issue |-> issue],
               IF cleanIssueThrows(issue)
               THEN Thrown(<<"TypeError">>) ELSE Returned(cleanIssue(issue)))

CallHandleFetchError ==
    /\ Idle
    /\ \E response \in Responses :
        Finish("handleFetchError", [response |-> response],
               Thrown(handleFetchError(response)))

(***************************************************************************)
(* What the tracker answers to the operations of the client.               *)
(***************************************************************************)
TextNode(t) == Node("text", t, <<>>, <<>>)

OutwardLink ==
    [type |-> [inward |-> <<"is blocked by">>, outward |-> <<"blocks">>],
     inwardIssue |-> None, outwardIssue |-> Some(LinkedIssue(KeyB, None))]

\* The issues a single-issue fetch answers with.
IssuePayloads ==
    { RawIssue(KeyA, d, l, None, e, <<>>) :
        d \in { None, Some(<<TextNode(KeyA)>>), Some(<<TextNode(KeyB \o KeyA)>>) },
        l \in { <<>>, <<OutwardLink>> },
        e \in { <<>>, KeyB } }

\* The issues a search answers with.
SearchPayloads ==
    { RawIssue(KeyA, Some(<<TextNode(KeyB \o KeyA)>>), <<>>, None, KeyB, <<>>),
      RawIssue(KeyB, None, <<OutwardLink>>, None, KeyB, <<>>) }

Comment(i, b) ==
    [body |-> b, id |-> i, author |-> Some(<<"author">>), created |-> <<"t0">>,
     updated |-> <<"t1">>]

CommentPayloads ==
    { Comment(<<"c1">>, b) :
        b \in { None, Some(<<TextNode(KeyA)>>), Some(<<TextNode(KeyB \o KeyA)>>) } }
      \cup { Comment(<<"c2">>, Some(<<TextNode(KeyA)>>)) }

IssueOutcomes == { Ok(i) : i \in IssuePayloads } \cup Failures
CommentsOutcomes ==
    { Ok([comments |-> cs]) : cs \in SeqsUpTo(CommentPayloads, MaxComments) } \cup Failures
EpicOutcomes == { Ok([summary |-> sm]) : sm \in { None, Some(<<"epic summary">>) } } \cup Failures
SearchOutcomes ==
    { Ok([total |-> Len(is), issues |-> is]) : is \in SeqsUpTo(SearchPayloads, MaxIssues) }
      \cup Failures
BranchOutcomes ==
    { Ok([comments |-> <<>>]), Ok([comments |-> <<Comment(<<"c1">>, Some(<<TextNode(KeyA)>>))>>]),
      Http(500) }

IssueIds == { KeyA, KeyB }

(***************************************************************************)
(* fetchJson, as the operations use it.                                    *)
(***************************************************************************)
\* An operation is called: its first requests are sent.
Call(name, a, fetches) ==
    /\ Idle
    /\ op' = name
    /\ arg' = a
    /\ requests' = [i \in 1..Len(fetches) |-> fetches[i].path]
    /\ net' = fetches
    /\ local' = <<>>
    /\ result' = NoResult
    /\ UNCHANGED variant

\* The operation ends, returning or throwing r.
Done(r) ==
    /\ pc' = "done"
    /\ result' = r

Deliver(i) == [net EXCEPT ![i].delivered = TRUE]

\* error.message.includes("(Status: 404)")
includesStatus404(msg) ==
    \E i \in 1..(Len(msg) - 2) :
        msg[i] = " (Status: " /\ msg[i + 1] = "404" /\ msg[i + 2] = ")"

(***************************************************************************)
(* searchIssues                                                            *)
(***************************************************************************)
searchIssuesCall ==
    \E o \in SearchOutcomes :
        /\ Call("searchIssues", [searchString |-> <<"jql">>],
                <<Fetch(fetchJsonPath(variant, <<Api3, "search?", "params">>), o)>>)
        /\ pc' = "await search"

searchIssuesReturn ==
    /\ op = "searchIssues" /\ pc = "await search"
    /\ net' = Deliver(1)
    /\ LET o == net[1].outcome
       IN  IF o.kind # "ok" THEN Done(Thrown(fetchJsonError(o)))
           ELSE IF \E i \in 1..Len(o.data.issues) : cleanIssueThrows(o.data.issues[i])
           THEN Done(Thrown(<<"TypeError">>))
           ELSE Done(Returned([total |-> o.data.total,
                               issues |-> [i \in 1..Len(o.data.issues) |->
                                              cleanIssue(o.data.issues[i])]]))
    /\ UNCHANGED <<variant, op, arg, requests, local>>

(***************************************************************************)
(* getIssueWithComments                                                    *)
(***************************************************************************)
\* withComments with the mentions deduplicated by key across the description,
\* the links and the comments.
withCommentsDeduplicated(issueData, commentsData) ==
    LET issue == cleanIssue(issueData)
        comments == [i \in 1..Len(commentsData.comments) |->
                        cleanComment(commentsData.comments[i])]
        commentMentions == Flatten([i \in 1..Len(comments) |-> comments[i].mentions])
    IN  [issue EXCEPT !.relatedIssues = MapValues(<<>>, issue.relatedIssues \o commentMentions),
                      !.comments = Some(comments)]

\* Lines 345-355: the issue with its comments and their mentions.
withComments(issueData, commentsData) ==
    LET issue == cleanIssue(issueData)
        comments == [i \in 1..Len(commentsData.comments) |->
                        cleanComment(commentsData.comments[i])]
        commentMentions == Flatten([i \in 1..Len(comments) |-> comments[i].mentions])
    IN  [issue EXCEPT !.relatedIssues = issue.relatedIssues \o commentMentions,
                      !.comments = Some(comments)]

\* The catch block of the two parallel fetches.
notFoundOrRethrow(msg, issueId) ==
    IF includesStatus404(msg) THEN <<"Issue not found: ">> \o issueId ELSE msg

getIssueWithCommentsCall ==
    \E issueId \in IssueIds, o1 \in IssueOutcomes, o2 \in CommentsOutcomes :
        /\ Call("getIssueWithComments", [issueId |-> issueId],
                << Fetch(fetchJsonPath(variant, <<Api3, "issue/">> \o issueId \o <<"?", "params">>), o1),
                   Fetch(fetchJsonPath(variant, <<Api3, "issue/">> \o issueId \o <<"/comment">>), o2) >>)
        /\ pc' = "await all"

\* One of the two fetches completes.  Promise.all rejects with the first
\* rejection and fulfils when both have fulfilled; the code after the await
\* runs up to the return or to the await of the epic fetch.
getIssueWithCommentsSettle ==
    /\ op = "getIssueWithComments" /\ pc = "await all"
    /\ \E i \in 1..2 :
        /\ ~net[i].delivered
        /\ LET o == net[i].outcome
               delivered == Deliver(i)
           IN  IF o.kind # "ok"
               THEN /\ Done(Thrown(notFoundOrRethrow(fetchJsonError(o), arg.issueId)))
                    /\ net' = delivered
                    /\ UNCHANGED <<requests, local>>
               ELSE IF ~(delivered[1].delivered /\ delivered[2].delivered)
               THEN /\ net' = delivered
                    /\ UNCHANGED <<pc, requests, local, result>>
               ELSE IF cleanIssueThrows(net[1].outcome.data)
               THEN /\ Done(Thrown(<<"TypeError">>))
                    /\ net' = delivered
                    /\ UNCHANGED <<requests, local>>
               ELSE LET issue == withComments(net[1].outcome.data, net[2].outcome.data)
                    IN  IF issue.epicLink.has
                        THEN \E eo \in EpicOutcomes :
                               LET path == fetchJsonPath(variant,
                                               <<Api3, "issue/">> \o issue.epicLink.val.key
                                                  \o <<"?fields=summary">>)
                               IN  /\ requests' = Append(requests, path)
                                   /\ net' = Append(delivered, Fetch(path, eo))
                                   /\ local' = [issue |-> issue]
                                   /\ pc' = "await epic"
                                   /\ UNCHANGED result
                        ELSE /\ Done(Returned(issue))
                             /\ net' = delivered
                             /\ UNCHANGED <<requests, local>>
    /\ UNCHANGED <<variant, op, arg>>

\* epicSettled without the try block: the failure of the epic fetch is thrown.
epicSettledUncaught(issue, o) ==
    IF o.kind = "ok"
    THEN Returned([issue EXCEPT !.epicLink.val.summary = o.data.summary])
    ELSE Thrown(fetchJsonError(o))

\* The try block around the epic fetch: a failure is logged and dropped.
epicSettled(issue, o) ==
    IF o.kind = "ok"
    THEN Returned([issue EXCEPT !.epicLink.val.summary = o.data.summary])
    ELSE Returned(issue)

getIssueWithCommentsEpic ==
    /\ op = "getIssueWithComments" /\ pc = "await epic"
    /\ net' = Deliver(3)
    /\ Done(epicSettled(local.issue, net[3].outcome))
    /\ UNCHANGED <<variant, op, arg, requests, local>>

(***************************************************************************)
(* getEpicChildren                                                         *)
(***************************************************************************)
\* Lines 292-306: what one branch of the fan-out returns.
childWithComments(issue, commentsData) ==
    LET cleanedIssue == cleanIssue(issue)
        comments == [i \in 1..Len(commentsData.comments) |->
                        cleanComment(commentsData.comments[i])]
        commentMentions == Flatten([i \in 1..Len(comments) |-> comments[i].mentions])
    IN  [cleanedIssue EXCEPT !.relatedIssues = cleanedIssue.relatedIssues \o commentMentions,
                             !.comments = Some(comments)]

\* collect for results gathered as the branches complete: the value takes the
\* first free place.
collectAsCompleted(results, i, v) ==
    LET free == CHOOSE j \in 1..Len(results) :
                    ~results[j].has /\ \A k \in 1..(j - 1) : results[k].has
    IN  [results EXCEPT ![free] = Some(v)]

\* Promise.all keeps the value of the i-th promise at index i.  local.order
\* records the order in which the branches completed; the code keeps no such
\* record, the properties below use it to tell the completion orders apart.
collect(results, i, v) == [results EXCEPT ![i] = Some(v)]

getEpicChildrenCall ==
    \E epicKey \in { KeyB }, o \in SearchOutcomes :
        /\ Call("getEpicChildren", [epicKey |-> epicKey],
                <<Fetch(fetchJsonPath(variant, <<Api3, "search?", "params">>), o)>>)
        /\ pc' = "await search"

\* The search completes: every branch of data.issues.map sends its comment
\* request, in the order of data.issues.
getEpicChildrenSearch ==
    /\ op = "getEpicChildren" /\ pc = "await search"
    /\ LET o == net[1].outcome
       IN  IF o.kind # "ok"
           THEN /\ Done(Thrown(fetchJsonError(o)))
                /\ net' = Deliver(1)
                /\ UNCHANGED <<requests, local>>
           ELSE IF o.data.issues = <<>>
           THEN /\ Done(Returned(<<>>))
                /\ net' = Deliver(1)
                /\ UNCHANGED <<requests, local>>
           ELSE \E outs \in [1..Len(o.data.issues) -> BranchOutcomes] :
                  LET branches ==
                        [i \in 1..Len(o.data.issues) |->
                           Fetch(fetchJsonPath(variant,
                                     <<Api3, "issue/">> \o o.data.issues[i].key \o <<"/comment">>),
                                 outs[i])]
                  IN  /\ requests' = requests \o [i \in 1..Len(branches) |-> branches[i].path]
                      /\ net' = Deliver(1) \o branches
                      /\ local' = [results |-> [i \in 1..Len(branches) |-> None],
                                   order |-> <<>>]
                      /\ pc' = "await all"
                      /\ UNCHANGED result
    /\ UNCHANGED <<variant, op, arg>>

\* The comment fetch of branch i completes and the branch runs to its end.
getEpicChildrenBranch ==
    /\ op = "getEpicChildren" /\ pc = "await all"
    /\ \E i \in 1..Len(local.results) :
        /\ ~net[i + 1].delivered
        /\ net' = Deliver(i + 1)
        /\ LET o == net[i + 1].outcome
               issue == net[1].outcome.data.issues[i]
           IN  IF o.kind # "ok"
               THEN Done(Thrown(fetchJsonError(o))) /\ UNCHANGED local
               ELSE IF cleanIssueThrows(issue)
               THEN Done(Thrown(<<"TypeError">>)) /\ UNCHANGED local
               ELSE LET results == collect(local.results, i, childWithComments(issue, o.data))
                    IN  /\ local' = [results |-> results, order |-> Append(local.order, i)]
                        /\ IF \A j \in 1..Len(results) : results[j].has
                           THEN Done(Returned([j \in 1..Len(results) |-> results[j].val]))
                           ELSE UNCHANGED <<pc, result>>
    /\ UNCHANGED <<variant, op, arg, requests>>

(***************************************************************************)
(* The operations that send one request and hand its answer on.            *)
(***************************************************************************)
\* The single fetchJson call of the operation completes.
fetchJsonSettled(value) ==
    /\ net' = Deliver(1)
    /\ Done(IF net[1].outcome.kind = "ok" THEN Returned(value)
            ELSE Thrown(fetchJsonError(net[1].outcome)))
    /\ UNCHANGED <<variant, op, arg, requests, local>>

Created == [key |-> KeyA, id |-> <<"id of ">> \o KeyA]

createIssueCall ==
    \E o \in { Ok(Created) } \cup Failures :
        /\ Call("createIssue", [projectKey |-> <<"A">>],
                <<Fetch(fetchJsonPath(variant, <<Api3, "issue">>), o)>>)
        /\ pc' = "await"

createIssueReturn ==
    /\ op = "createIssue" /\ pc = "await"
    /\ fetchJsonSettled(net[1].outcome.data)

updateIssueCall ==
    \E issueKey \in IssueIds, o \in { Ok(<<>>) } \cup Failures :
        /\ Call("updateIssue", [issueKey |-> issueKey],
                <<Fetch(fetchJsonPath(variant, <<Api3, "issue/">> \o issueKey), o)>>)
        /\ pc' = "await"

updateIssueReturn ==
    /\ op = "updateIssue" /\ pc = "await"
    /\ fetchJsonSettled(<<>>)

Transitions == << [id |-> <<"31">>, name |-> <<"Done">>] >>

getTransitionsCall ==
    \E issueKey \in IssueIds, o \in { Ok([transitions |-> Transitions]) } \cup Failures :
        /\ Call("getTransitions", [issueKey |-> issueKey],
                <<Fetch(fetchJsonPath(variant, <<Api3, "issue/">> \o issueKey \o <<"/transitions">>), o)>>)
        /\ pc' = "await"

getTransitionsReturn ==
    /\ op = "getTransitions" /\ pc = "await"
    /\ fetchJsonSettled(net[1].outcome.data.transitions)

transitionIssueCall ==
    \E issueKey \in IssueIds, o \in { Ok(<<>>) } \cup Failures :
        /\ Call("transitionIssue", [issueKey |-> issueKey],
                <<Fetch(fetchJsonPath(variant, <<Api3, "issue/">> \o issueKey \o <<"/transitions">>), o)>>)
        /\ pc' = "await"

transitionIssueReturn ==
    /\ op = "transitionIssue" /\ pc = "await"
    /\ fetchJsonSettled(<<>>)

addCommentToIssueCall ==
    \E issueIdOrKey \in IssueIds,
       o \in { Ok(Comment(<<"c1">>, Some(d))) : d \in ForestsUpTo(1) } \cup Failures :
        /\ Call("addCommentToIssue", [issueIdOrKey |-> issueIdOrKey],
                <<Fetch(fetchJsonPath(variant, <<Api3, "issue/">> \o issueIdOrKey \o <<"/comment">>), o)>>)
        /\ pc' = "await"

addCommentToIssueReturn ==
    /\ op = "addCommentToIssue" /\ pc = "await"
    /\ fetchJsonSettled(
        LET response == net[1].outcome.data
        IN  [body |-> extractTextContent(Arr(response.body.val)),
             id |-> response.id,
             author |-> response.author.val,
             created |-> response.created,
             updated |-> response.updated])

\* addAttachment calls fetch itself, with the path as written.
addAttachmentCall ==
    \E issueKey \in IssueIds,
       o \in { Ok(<<[id |-> <<"att">>, filename |-> <<"file">>]>>) } \cup Failures :
        /\ Call("addAttachment", [issueKey |-> issueKey],
                <<Fetch(<<Api3, "issue/">> \o issueKey \o <<"/attachments">>, o)>>)
        /\ pc' = "await"

addAttachmentReturn ==
    /\ op = "addAttachment" /\ pc = "await"
    /\ net' = Deliver(1)
    /\ LET o == net[1].outcome
       IN  Done(IF o.kind = "ok"
                THEN Returned([id |-> o.data[1].id, filename |-> o.data[1].filename])
                ELSE IF o.kind = "http" THEN Thrown(handleFetchError(o.response))
                ELSE Thrown(<<"fetch failed">>))
    /\ UNCHANGED <<variant, op, arg, requests, local>>

(***************************************************************************)
(* The end of an operation.                                                *)
(***************************************************************************)
\* A response arrives after Promise.all has rejected and the operation has
\* thrown: nothing awaits it any more.
dropLateResponse ==
    /\ pc = "done"
    /\ \E i \in 1..Len(net) :
        /\ ~net[i].delivered
        /\ net' = Deliver(i)
    /\ UNCHANGED <<variant, op, pc, arg, requests, local, result>>

\* The caller takes the result; nothing of the operation is kept.
Return ==
    /\ pc = "done"
    /\ op' = "none"
    /\ pc' = "idle"
    /\ arg' = <<>>
    /\ requests' = <<>>
    /\ net' = <<>>
    /\ local' = <<>>
    /\ result' = NoResult
    /\ UNCHANGED variant

Next ==
    \/ CallExtractTextContent
    \/ CallExtractIssueMentions
    \/ CallCleanIssue
    \/ CallHandleFetchError
    \/ searchIssuesCall
    \/ searchIssuesReturn
    \/ getEpicChildrenCall
    \/ getEpicChildrenSearch
    \/ getEpicChildrenBranch
    \/ getIssueWithCommentsCall
    \/ getIssueWithCommentsSettle
    \/ getIssueWithCommentsEpic
    \/ createIssueCall
    \/ createIssueReturn
    \/ updateIssueCall
    \/ updateIssueReturn
    \/ getTransitionsCall
    \/ getTransitionsReturn
    \/ transitionIssueCall
    \/ transitionIssueReturn
    \/ addAttachmentCall
    \/ addAttachmentReturn
    \/ addCommentToIssueCall
    \/ addCommentToIssueReturn
    \/ dropLateResponse
    \/ Return

Spec == Init /\ [][Next]_vars

(***************************************************************************)
(* Properties.                                                             *)
(***************************************************************************)
Finished(name) == op = name /\ pc = "done"

Keys(ms) == [i \in 1..Len(ms) |-> ms[i].key]

\* The index of the first entry of ms that has key k.
FirstIndex(ms, k) ==
    CHOOSE i \in 1..Len(ms) : ms[i].key = k /\ \A j \in 1..(i - 1) : ms[j].key # k

\* k is one or more uppercase letters, "-", one or more digits.
IsIssueKey(k) ==
    \E d \in 2..(Len(k) - 1) :
        /\ k[d] = "-"
        /\ \A i \in 1..(d - 1) : k[i] \in Upper
        /\ \A i \in (d + 1)..Len(k) : k[i] \in Digit

\* The mentions pushed during the traversal of the call's document.
Pushed == processNodes(arg.content, arg.source, arg.commentId)

\* C1: extractIssueMentions returns every key the traversal meets exactly once,
\* in the order of the keys' first occurrences, each with the mention that was
\* met first for it.
C1_FirstOccurrenceWins ==
    Finished("extractIssueMentions") =>
        LET r == result.val
        IN  /\ \A i, j \in 1..Len(r) : i # j => r[i].key # r[j].key
            /\ {r[i].key : i \in 1..Len(r)} = {Pushed[i].key : i \in 1..Len(Pushed)}
            /\ \A i, j \in 1..Len(r) :
                 i < j => FirstIndex(Pushed, r[i].key) < FirstIndex(Pushed, r[j].key)
            /\ \A i \in 1..Len(r) : r[i] = Pushed[FirstIndex(Pushed, r[i].key)]

\* C1, its case: the traversal meets A-1, B-1, A-1 and the result is A-1, B-1.
C1_Witness ==
    /\ Finished("extractIssueMentions")
    /\ Keys(Pushed) = <<KeyA, KeyB, KeyA>>
    /\ Keys(result.val) = <<KeyA, KeyB>>
    /\ arg.source = "comment"

\* The text the claim C8 gives for a sequence of nodes: a node that has
\* children contributes its children's text, a text leaf its text.
RECURSIVE TextOfContainers(_)
TextOfContainers(nodes) ==
    IF nodes = <<>> THEN <<>>
    ELSE LET node == Head(nodes)
         IN  (IF node.content # <<>> THEN TextOfContainers(node.content)
              ELSE IF node.type = "text" THEN node.text
              ELSE <<>>) \o TextOfContainers(Tail(nodes))

IssueMentions(issue) ==
    issue.relatedIssues
      \o (IF issue.comments.has
          THEN Flatten([i \in 1..Len(issue.comments.val) |-> issue.comments.val[i].mentions])
          ELSE <<>>)

ReturnedMentions ==
    IF pc # "done" \/ result.kind # "ok" THEN <<>>
    ELSE IF op = "extractIssueMentions" THEN result.val
    ELSE IF op \in {"cleanIssue", "getIssueWithComments"} THEN IssueMentions(result.val)
    ELSE IF op = "searchIssues"
         THEN Flatten([i \in 1..Len(result.val.issues) |-> IssueMentions(result.val.issues[i])])
    ELSE IF op = "getEpicChildren"
         THEN Flatten([i \in 1..Len(result.val) |-> IssueMentions(result.val[i])])
    ELSE <<>>

\* C9 as claimed: the key of every mention, of type "mention" or "link", is an
\* issue key.
C9_EveryKeyIsAnIssueKey ==
    \A i \in 1..Len(ReturnedMentions) : IsIssueKey(ReturnedMentions[i].key)

\* C9 as amended: the key of every mention of type "mention" is an issue key;
\* an entry of type "link" has the key its issuelink gives.
C9_MentionKeysAreIssueKeys ==
    \A i \in 1..Len(ReturnedMentions) :
        ReturnedMentions[i].type = "mention" => IsIssueKey(ReturnedMentions[i].key)

\* C9, its case: an issue with a mention from its description and a link
\* whose key has a digit in its project part.
C9_Witness ==
    /\ Finished("cleanIssue")
    /\ result.kind = "ok"
    /\ \E i, j \in 1..Len(result.val.relatedIssues) :
         /\ result.val.relatedIssues[i].type = "mention"
         /\ result.val.relatedIssues[i].key = KeyB
         /\ result.val.relatedIssues[j].type = "link"
         /\ result.val.relatedIssues[j].key = KeyA1

\* The side of an issuelink that is populated, the inward side first.
PopulatedSide(link) == IF link.inwardIssue.has THEN "inward" ELSE "outward"

LinkedIssueOf(link) ==
    IF PopulatedSide(link) = "inward" THEN link.inwardIssue.val ELSE link.outwardIssue.val

LabelOf(link, side) ==
    LET label == IF side = "inward" THEN link.type.inward ELSE link.type.outward
    IN  IF label = <<>> THEN None ELSE Some(label)

\* C2: the entry of every issuelink has type "link", the key and the summary
\* of the populated side, and the link type's label of that same side.
C2_RelationshipOfThePopulatedSide ==
    (Finished("cleanIssue") /\ result.kind = "ok") =>
        LET links == arg.issue.issuelinks
            related == result.val.relatedIssues
            before == Len(related) - Len(links)
        IN  \A i \in 1..Len(links) :
              /\ related[before + i].type = "link"
              /\ related[before + i].source = "description"
              /\ related[before + i].key = LinkedIssueOf(links[i]).key
              /\ related[before + i].summary = LinkedIssueOf(links[i]).summary
              /\ related[before + i].relationship = LabelOf(links[i], PopulatedSide(links[i]))

\* The mentions of the comments, comment after comment.
CommentMentions(comments) ==
    Flatten([i \in 1..Len(comments) |->
               IF comments[i].body.has
               THEN extractIssueMentions(comments[i].body.val, "comment", Some(comments[i].id))
               ELSE <<>>])

\* related is the mentions of the description, then one link entry for each
\* issuelink, then the mentions of the comments, with nothing removed.
IsConcatenation(related, issue, comments) ==
    LET fromDescription ==
            IF issue.description.has
            THEN extractIssueMentions(issue.description.val, "description", None)
            ELSE <<>>
        d == Len(fromDescription)
        n == Len(issue.issuelinks)
        fromComments == CommentMentions(comments)
    IN  /\ Len(related) = d + n + Len(fromComments)
        /\ SubSeq(related, 1, d) = fromDescription
        /\ \A i \in 1..n : /\ related[d + i].type = "link"
                           /\ related[d + i].key = LinkedIssueOf(issue.issuelinks[i]).key
        /\ SubSeq(related, d + n + 1, Len(related)) = fromComments

C4_NotFoundNamesTheIssue ==
    (/\ Finished("getIssueWithComments")
     /\ net[1].delivered
     /\ net[1].outcome.kind = "http"
     /\ net[1].outcome.response.status = 404) =>
        result = Thrown(<<"Issue not found: ">> \o arg.issueId)

\* C5: when the epic fetch fails, getIssueWithComments returns the issue: its
\* epicLink has the id and the key of the epic and no summary, and every
\* other field is what it is when the epic fetch succeeds.
C5_EpicFailureIsSuppressed ==
    (/\ Finished("getIssueWithComments")
     /\ Len(net) = 3
     /\ net[3].outcome.kind # "ok") =>
        /\ result.kind = "ok"
        /\ result.val.epicLink.has
        /\ result.val.epicLink.val.id = net[1].outcome.data.customfield_10014
        /\ result.val.epicLink.val.key = net[1].outcome.data.customfield_10014
        /\ result.val.epicLink.val.summary = None
        /\ \A o \in { x \in EpicOutcomes : x.kind = "ok" } :
             LET succeeded == epicSettled(local.issue, o).val
             IN  result.val = [succeeded EXCEPT !.epicLink.val.summary = None]
        /\ result.val.comments.has
        /\ Len(result.val.comments.val) = Len(net[2].outcome.data.comments)

\* C5, its case: the issue and its comment were fetched, the epic fetch was
\* answered 500, and the issue is returned with the comment.
C5_Witness ==
    /\ Finished("getIssueWithComments")
    /\ Len(net) = 3
    /\ net[3].outcome = Http(500)
    /\ result.kind = "ok"
    /\ result.val.epicLink.val.key = KeyB
    /\ Len(result.val.comments.val) = 1
    /\ Len(result.val.relatedIssues) > 0

\* The comments of a response, normalised.
Cleaned(comments) == [i \in 1..Len(comments) |-> cleanComment(comments[i])]

\* C6: getEpicChildren returns one issue for each issue of the search, in the
\* order of the search; the i-th has the identity and the description of
\* the i-th raw issue and the comments answered to the request for that
\* issue's key, in whatever order the comment fetches completed.
C6_ChildrenInSearchOrder ==
    (Finished("getEpicChildren") /\ result.kind = "ok") =>
        LET issues == net[1].outcome.data.issues
        IN  /\ Len(result.val) = Len(issues)
            /\ \A i \in 1..Len(issues) :
                 /\ result.val[i].id = issues[i].id
                 /\ result.val[i].key = issues[i].key
                 /\ result.val[i].description = cleanIssue(issues[i]).description
                 /\ \E j \in 2..Len(net) :
                      /\ net[j].path = fetchJsonPath(variant,
                                           <<Api3, "issue/">> \o issues[i].key \o <<"/comment">>)
                      /\ result.val[i].comments = Some(Cleaned(net[j].outcome.data.comments))
                 /\ result.val[i].comments = Some(Cleaned(net[i + 1].outcome.data.comments))
                 /\ IsConcatenation(result.val[i].relatedIssues, issues[i],
                                    net[i + 1].outcome.data.comments)

\* C6, its case: two issues with different keys and different comments, the
\* comments of the second fetched before those of the first.
C6_Witness ==
    /\ Finished("getEpicChildren")
    /\ result.kind = "ok"
    /\ Len(result.val) = 2
    /\ local.order = <<2, 1>>
    /\ result.val[1].key # result.val[2].key
    /\ result.val[1].comments # result.val[2].comments

\* The parts of the message of a thrown request failure.
MessageOf(msg) == SubSeq(msg, 3, Len(msg) - 3)
StatusOf(msg) == SubSeq(msg, Len(msg) - 2, Len(msg))

\* C7: the message of the failure raised for a response that is not ok is the
\* joined errorMessages when that list is not empty, else the message field,
\* else the errorMessage field, else the status text, which it also is when
\* the body cannot be parsed; in every case the failure carries the status.
C7_MessageSelection ==
    (Finished("handleFetchError") /\ ~arg.response.ok) =>
        LET body == arg.response.body
            parsed == body.kind = "object"
            hasList == parsed /\ body.errorMessages.kind = "array"
                              /\ body.errorMessages.items # <<>>
            hasMessage == parsed /\ body.message # <<>>
            hasErrorMessage == parsed /\ body.errorMessage # <<>>
            chosen == IF Len(result.msg) > 4 THEN MessageOf(result.msg) ELSE <<>>
        IN  /\ result.kind = "error"
            /\ Head(result.msg) = "JIRA API Error"
            /\ Len(result.msg) > 4 => result.msg[2] = ": "
            /\ StatusOf(result.msg) = <<" (Status: ", ToString(arg.response.status), ")">>
            /\ hasList => chosen = Join(body.errorMessages.items, <<"; ">>)
            /\ (~hasList /\ hasMessage) => chosen = body.message
            /\ (~hasList /\ ~hasMessage /\ hasErrorMessage) => chosen = body.errorMessage
            /\ (~hasList /\ ~hasMessage /\ ~hasErrorMessage) => chosen = arg.response.statusText

\* C7, its case: a 404 whose body has an empty errorMessages list, a message
\* and an errorMessage; the message field is the one reported.
C7_Witness ==
    /\ Finished("handleFetchError")
    /\ arg.response.status = 404
    /\ arg.response.body.kind = "object"
    /\ arg.response.body.errorMessages = [items |-> <<>>, kind |-> "array"]
    /\ arg.response.body.message = <<"msg">>
    /\ arg.response.body.errorMessage = <<"emsg">>
    /\ result = Thrown(<<"JIRA API Error", ": ", "msg", " (Status: ", "404", ")">>)

\* C10: every request of the Jira Server variant goes to /rest/api/2/ and
\* none to /rest/api/3/.
C10_ServerRequestsUseApi2 ==
    variant = "server" =>
        \A i \in 1..Len(requests) :
            /\ Head(requests[i]) = Api2
            /\ \A j \in 1..Len(requests[i]) : requests[i][j] # Api3

====
